---- MODULE Spec2Model ----
(***************************************************************************)
(* A model of the flight scraper agent (src/app.py): the OpenSky           *)
(* normalizer, the combined store operation upsert_current on a SQLAlchemy *)
(* session, the polling collector and the runner.                          *)
(*                                                                         *)
(* Two specifications share the variables:                                 *)
(*   Spec      the running system: main, collector_opensky,                *)
(*             collector_commercial and the publish tasks on one asyncio   *)
(*             event loop;                                                 *)
(*   NormSpec  normalize_opensky_state applied to one provider record      *)
(*             drawn from a bounded set of records.                        *)
(***************************************************************************)
EXTENDS Integers, Sequences, FiniteSets

VARIABLES
    main_pc,          \* where main() is: init_db, connect_redis, gather, failed
    opensky_pc,       \* where collector_opensky is
    commercial_pc,    \* where collector_commercial is
    data,             \* the value fetch_opensky_all returned this cycle
    idx,              \* position of the for loop in states (1-based)
    session,          \* the SQLAlchemy session of the snapshot
    flights_current,  \* committed rows of flights_current
    flights_history,  \* committed rows of flights_history, in insertion order
    uuid_next,        \* uuid.uuid4: the next fresh identifier
    now,              \* time.time(), in seconds since the runner started
    tasks,            \* the publish tasks created by asyncio.create_task
    channel,          \* the messages delivered on REDIS_CHANNEL
    log,              \* one entry per processed record: what happened to it,
                      \* and which publish task carries its state
    cur_before,       \* flights_current as it was before the last upsert_current
    cycles,           \* fetches completed
    store_faults,     \* store faults injected so far
    publish_faults,   \* publish failures (raise or hang) injected so far
    norm_in,          \* NormSpec: the provider record and the source tag
    norm_out          \* NormSpec: what normalize_opensky_state gave for it

vars == <<main_pc, opensky_pc, commercial_pc, data, idx, session,
          flights_current, flights_history, uuid_next, now, tasks, channel,
          log, cur_before, cycles, store_faults, publish_faults,
          norm_in, norm_out>>

sys_vars == <<main_pc, opensky_pc, commercial_pc, data, idx, session,
              flights_current, flights_history, uuid_next, now, tasks, channel,
              log, cur_before, cycles, store_faults, publish_faults>>

norm_vars == <<norm_in, norm_out>>

----------------------------------------------------------------------------
(* Bounds of the model.                                                    *)

\* fetch cycles the collector runs
MaxCycles == 2
\* records over all the snapshots of a run
MaxRecords == 3
\* faults over a run: a store fault (a failing query, flush or commit) or a
\* publish task that raises or never completes
MaxFaults == 1

\* seconds between polls
OPENSKY_POLL_INTERVAL == 5

----------------------------------------------------------------------------
(* Python values as they occur in a provider record: None, a number, a     *)
(* string (a sequence of characters) or a list (position 12, sensors).     *)
(* Every value has the same three fields so that any two compare.          *)

None == [t |-> "none", n |-> 0, s |-> <<>>]
Num(k) == [t |-> "num", n |-> k, s |-> <<>>]
Str(chars) == [t |-> "str", n |-> 0, s |-> chars]
List == [t |-> "list", n |-> 0, s |-> <<>>]

\* bool(v): None, 0 and "" are false; a non-empty list is true
Truthy(v) ==
    CASE v.t = "none" -> FALSE
      [] v.t = "num" -> v.n # 0
      [] v.t = "str" -> v.s # <<>>
      [] OTHER -> TRUE

\* a or b
PyOr(a, b) == IF Truthy(a) THEN a ELSE b

IsSpace(c) == c = " "

RECURSIVE LStrip(_)
LStrip(s) ==
    IF s = <<>> THEN s
    ELSE IF IsSpace(Head(s)) THEN LStrip(Tail(s)) ELSE s

RECURSIVE RStrip(_)
RStrip(s) ==
    IF s = <<>> THEN s
    ELSE IF IsSpace(s[Len(s)]) THEN RStrip(SubSeq(s, 1, Len(s) - 1)) ELSE s

\* str.strip()
Strip(v) == Str(RStrip(LStrip(v.s)))

\* state[i], with Python's 0-based index
HasIndex(state, i) == i < Len(state)
At(state, i) == state[i + 1]

----------------------------------------------------------------------------
(* FlightState and normalize_opensky_state.                                *)

\* what FlightState holds when there is none
NoState ==
    [icao24 |-> None, callsign |-> None, origin_country |-> None,
     lat |-> None, lon |-> None, altitude |-> None, velocity |-> None,
     heading |-> None, vertical_rate |-> None, last_seen |-> None,
     source |-> None, flight_number |-> None, country_name |-> None]

Raise(e) == [ok |-> FALSE, err |-> e, fs |-> NoState]
Return(x) == [ok |-> TRUE, err |-> "", fs |-> x]

\* pydantic's validation of one field: str for icao24 and source,
\* Optional[str], Optional[float], Optional[int].  The strings of the model
\* hold no digits, so a string never parses as a number; a list is of the
\* wrong type for every field.
ValidStr(v) == v.t = "str"
ValidOptStr(v) == v.t \in {"none", "str"}
ValidOptNum(v) == v.t \in {"none", "num"}

\* FlightState(**kw): every field validated, the two fields the call does
\* not pass take their default, None.
FlightState(kw) ==
    IF /\ ValidStr(kw.icao24)
       /\ ValidOptStr(kw.callsign)
       /\ ValidOptStr(kw.origin_country)
       /\ ValidOptNum(kw.lat)
       /\ ValidOptNum(kw.lon)
       /\ ValidOptNum(kw.altitude)
       /\ ValidOptNum(kw.velocity)
       /\ ValidOptNum(kw.heading)
       /\ ValidOptNum(kw.vertical_rate)
       /\ ValidOptNum(kw.last_seen)
       /\ ValidStr(kw.source)
    THEN Return([icao24 |-> kw.icao24, callsign |-> kw.callsign,
                 origin_country |-> kw.origin_country,
                 lat |-> kw.lat, lon |-> kw.lon,
                 altitude |-> kw.altitude, velocity |-> kw.velocity,
                 heading |-> kw.heading,
                 vertical_rate |-> kw.vertical_rate,
                 last_seen |-> kw.last_seen, source |-> kw.source,
                 flight_number |-> None, country_name |-> None])
    ELSE Raise("ValidationError")

\* a variant that tags every state 'opensky', whatever source it is given
normalize_default_source(state, source) ==
    IF Len(state) < 14 THEN Raise("IndexError")
    ELSE FlightState([icao24 |-> At(state, 0),
                      callsign |-> IF Truthy(At(state, 1))
                                   THEN Strip(At(state, 1)) ELSE None,
                      origin_country |-> At(state, 2),
                      lat |-> At(state, 6), lon |-> At(state, 5),
                      altitude |-> PyOr(At(state, 7), At(state, 13)),
                      velocity |-> At(state, 9), heading |-> At(state, 10),
                      vertical_rate |-> At(state, 11),
                      last_seen |-> PyOr(At(state, 3), At(state, 4)),
                      source |-> Str(<<"o", "p", "e", "n", "s", "k", "y">>)])

\* The body of the try block, statement by statement: an index past the end
\* of the record raises IndexError, .strip() on a true value that is no
\* string raises AttributeError, and `x or y` reads y only when x is false.
normalize_opensky_state(state, source) ==
    IF ~HasIndex(state, 0) THEN Raise("IndexError")
    ELSE IF ~HasIndex(state, 1) THEN Raise("IndexError")
    ELSE IF Truthy(At(state, 1)) /\ At(state, 1).t # "str"
         THEN Raise("AttributeError")
    ELSE IF ~HasIndex(state, 2) THEN Raise("IndexError")
    ELSE IF ~HasIndex(state, 3) THEN Raise("IndexError")
    ELSE IF ~Truthy(At(state, 3)) /\ ~HasIndex(state, 4)
         THEN Raise("IndexError")
    ELSE IF ~HasIndex(state, 5) THEN Raise("IndexError")
    ELSE IF ~HasIndex(state, 6) THEN Raise("IndexError")
    ELSE IF ~HasIndex(state, 7) THEN Raise("IndexError")
    ELSE IF ~Truthy(At(state, 7)) /\ ~HasIndex(state, 13)
         THEN Raise("IndexError")
    ELSE IF ~HasIndex(state, 9) THEN Raise("IndexError")
    ELSE IF ~HasIndex(state, 10) THEN Raise("IndexError")
    ELSE IF ~HasIndex(state, 11) THEN Raise("IndexError")
    ELSE LET icao24 == At(state, 0)
             callsign == IF Truthy(At(state, 1)) THEN Strip(At(state, 1))
                         ELSE None
             origin_country == At(state, 2)
             time_position == PyOr(At(state, 3), At(state, 4))
             lon == At(state, 5)
             lat == At(state, 6)
             altitude == PyOr(At(state, 7), At(state, 13))
             velocity == At(state, 9)
             heading == At(state, 10)
             vertical_rate == At(state, 11)
         IN FlightState([icao24 |-> icao24, callsign |-> callsign,
                         origin_country |-> origin_country,
                         lat |-> lat, lon |-> lon, altitude |-> altitude,
                         velocity |-> velocity, heading |-> heading,
                         vertical_rate |-> vertical_rate,
                         last_seen |-> time_position, source |-> source])

----------------------------------------------------------------------------
(* The store: the two tables and upsert_current on a session.              *)

\* the source tag collector_opensky passes
OpenSky == Str(<<"o", "p", "e", "n", "s", "k", "y">>)

\* session.query(FlightsCurrent).filter_by(icao24=...).first(): the rows the
\* query matches
Matching(cur, icao24) == {row \in cur : row.icao24 = icao24}

\* FlightsCurrent(...): a new row; id takes its default, uuid.uuid4, and the
\* two columns the constructor is not given stay NULL
FlightsCurrent(id, fs) ==
    [id |-> id, icao24 |-> fs.icao24, callsign |-> fs.callsign,
     flight_number |-> None, origin_country |-> fs.origin_country,
     lat |-> fs.lat, lon |-> fs.lon, altitude |-> fs.altitude,
     velocity |-> fs.velocity, heading |-> fs.heading,
     vertical_rate |-> fs.vertical_rate, last_seen |-> fs.last_seen,
     source |-> fs.source, country_name |-> None]

\* the assignments of the `if obj:` branch
UpdateRow(obj, fs) ==
    [obj EXCEPT !.callsign = fs.callsign,
                !.origin_country = fs.origin_country,
                !.lat = fs.lat, !.lon = fs.lon,
                !.altitude = fs.altitude, !.velocity = fs.velocity,
                !.heading = fs.heading,
                !.vertical_rate = fs.vertical_rate,
                !.last_seen = fs.last_seen, !.source = fs.source]

\* FlightsHistory(...): the history row of one sighting
FlightsHistory(id, t, fs) ==
    [id |-> id, icao24 |-> fs.icao24, timestamp |-> t, lat |-> fs.lat,
     lon |-> fs.lon, altitude |-> fs.altitude, velocity |-> fs.velocity,
     source |-> fs.source]

\* a variant that keeps one history row per distinct sighting
history_add_distinct(hist, row) ==
    IF \E i \in 1..Len(hist) :
           [hist[i] EXCEPT !.id = 0, !.timestamp = 0]
               = [row EXCEPT !.id = 0, !.timestamp = 0]
    THEN hist ELSE Append(hist, row)

\* session.add(hist)
history_add(hist, row) == Append(hist, row)

\* a variant that replaces the row it finds by a new row
UpsertRowsReplace(cur, id, fs) ==
    (cur \ Matching(cur, fs.icao24)) \cup {FlightsCurrent(id, fs)}

\* a variant that inserts without looking for the row
UpsertRowsInsert(cur, id, fs) == cur \cup {FlightsCurrent(id, fs)}

\* a variant that keeps a row whose last_seen is newer than the state's
UpsertRowsGuarded(cur, id, fs) ==
    LET found == {row \in cur : row.icao24 = fs.icao24}
    IN IF found # {}
       THEN LET obj == CHOOSE row \in found : TRUE
            IN IF fs.last_seen.n >= obj.last_seen.n
               THEN (cur \ {obj}) \cup {UpdateRow(obj, fs)}
               ELSE cur
       ELSE cur \cup {FlightsCurrent(id, fs)}

\* The current table after the update-or-insert of upsert_current.
UpsertRows(cur, id, fs) ==
    LET found == Matching(cur, fs.icao24)
    IN IF found # {}
       THEN LET obj == CHOOSE row \in found : TRUE
            IN (cur \ {obj}) \cup {UpdateRow(obj, fs)}
       ELSE cur \cup {FlightsCurrent(id, fs)}

\* What session.commit() leaves when it fails (the flush or the COMMIT
\* raises): the transaction is rolled back, so the tables are as before, and
\* the session is left needing a session.rollback() that the caller never
\* issues.
CommitFailed(db) ==
    [raised |-> TRUE, session |-> "inactive", cur |-> db.cur,
     hist |-> db.hist, uuid_next |-> db.uuid_next]

\* a variant that commits the current-state change on its own, before the
\* history row: a fault then loses the history row only
upsert_two_commits(sess, db, t, fs, fault) ==
    IF sess # "active"
    THEN [raised |-> TRUE, session |-> sess, cur |-> db.cur,
          hist |-> db.hist, uuid_next |-> db.uuid_next]
    ELSE LET inserted == Matching(db.cur, fs.icao24) = {}
             hist_id == IF inserted THEN db.uuid_next + 1 ELSE db.uuid_next
         IN IF fault
            THEN [raised |-> TRUE, session |-> "inactive",
                  cur |-> UpsertRows(db.cur, db.uuid_next, fs),
                  hist |-> db.hist, uuid_next |-> hist_id]
            ELSE [raised |-> FALSE, session |-> "active",
                  cur |-> UpsertRows(db.cur, db.uuid_next, fs),
                  hist |-> history_add(db.hist,
                                       FlightsHistory(hist_id, t, fs)),
                  uuid_next |-> hist_id + 1]

\* upsert_current(session, fs) on the committed tables db = [cur, hist,
\* uuid_next] at time t.  fault: the database fails this call.  A session
\* whose transaction failed earlier and was not rolled back raises on the
\* query, before anything is written.
upsert_current(sess, db, t, fs, fault) ==
    IF sess # "active"
    THEN [raised |-> TRUE, session |-> sess, cur |-> db.cur,
          hist |-> db.hist, uuid_next |-> db.uuid_next]
    ELSE IF fault
    THEN CommitFailed(db)
    ELSE LET inserted == Matching(db.cur, fs.icao24) = {}
             hist_id == IF inserted THEN db.uuid_next + 1 ELSE db.uuid_next
         IN [raised |-> FALSE, session |-> "active",
             cur |-> UpsertRows(db.cur, db.uuid_next, fs),
             hist |-> history_add(db.hist, FlightsHistory(hist_id, t, fs)),
             uuid_next |-> hist_id + 1]

----------------------------------------------------------------------------
(* The provider: what one GET of states/all can give.                      *)

\* A provider record with all 17 positions:
\* 0 icao24, 1 callsign, 2 origin_country, 3 time_position, 4 last_contact,
\* 5 longitude, 6 latitude, 7 baro_altitude, 8 on_ground, 9 velocity,
\* 10 heading, 11 vertical_rate, 12 sensors, 13 geo_altitude, 14 squawk,
\* 15 spi, 16 position_source
Record(icao24, callsign, t3, t4, lon, lat, alt7, alt13) ==
    <<icao24, callsign, Str(<<"c">>), t3, t4, lon, lat, alt7, None, Num(1),
      Num(2), Num(0), List, alt13, None, None, Num(0)>>

RecA1 ==
    Record(Str(<<"a">>), Str(<<" ", "a", " ">>), Num(2), Num(2), Num(2),
           Num(1), Num(1), None)
\* the same aircraft in an older sighting
RecA2 == Record(Str(<<"a">>), None, Num(1), Num(1), Num(1), Num(1), None, Num(2))
RecB == Record(Str(<<"b">>), Str(<<"b">>), None, Num(2), None, None, Num(2), Num(1))
\* a record cut after position 11, with no barometric altitude
RecShort == SubSeq(RecA2, 1, 12)

Catalog == {RecA1, RecA2, RecB, RecShort}

SeqsUpTo(S, n) == UNION {[1..k -> S] : k \in 0..n}

\* A JSON value as r.json() returns it, or None: t is "none" or "dict", keys
\* the dict's keys, is_list whether data['states'] is a list (it is null
\* otherwise), states its records.
PyNone == [t |-> "none", keys |-> {}, is_list |-> FALSE, states |-> <<>>]
Dict(keys, is_list, recs) ==
    [t |-> "dict", keys |-> keys, is_list |-> is_list, states |-> recs]

\* the bodies a 200 response can carry, with at most n records
Bodies(n) ==
    {Dict({"time"}, FALSE, <<>>), Dict({"time", "states"}, FALSE, <<>>)}
    \cup {Dict({"time", "states"}, TRUE, recs) : recs \in SeqsUpTo(Catalog, n)}

\* What requests.get, raise_for_status and r.json() can do.
HttpOutcomes(n) ==
    {[kind |-> k, body |-> PyNone] :
        k \in {"transport_error", "http_error", "invalid_json"}}
    \cup {[kind |-> "ok", body |-> b] : b \in Bodies(n)}

\* fetch_opensky_all(): any exception of the three calls is caught and None
\* returned
fetch_opensky_all(outcome) ==
    IF outcome.kind = "ok" THEN outcome.body ELSE PyNone

\* a variant that walks the snapshot from its last record to its first
states_reversed ==
    [i \in 1..Len(data.states) |-> data.states[Len(data.states) + 1 - i]]

\* states = data['states']
states == data.states

\* `data and 'states' in data`
HasStates(d) == d.t = "dict" /\ d.keys # {} /\ "states" \in d.keys

----------------------------------------------------------------------------
(* The publisher.                                                          *)

\* fs.dict()
dict(fs) == fs

\* json.dumps(payload, default=str)
json_dumps(payload) == [json |-> payload]

\* asyncio.create_task(publish_redis(redis, REDIS_CHANNEL, payload)): the
\* coroutine is queued on the event loop, not run
create_task(ts, payload, cycle) ==
    Append(ts, [payload |-> payload, status |-> "created", cycle |-> cycle])

\* publish_redis run by the event loop: the message is delivered, or
\* redis.publish raises, or it never completes
publish_redis(chan, payload, outcome) ==
    IF outcome = "published" THEN Append(chan, json_dumps(payload)) ELSE chan

\* a variant in which the collector awaits the task and takes its exception
CollectorAwaitsTask(pc, outcome) ==
    IF outcome = "raised" THEN "crashed" ELSE pc

\* Nothing awaits a publish task: its exception stays in the task object and
\* the collector is where it was.
CollectorAfterTask(pc, outcome) == pc

\* a variant whose try statement encloses the for loop: an error ends it
AbortSnapshot(i, n) == n + 1

\* The loop index after the except clause of the for body has run for
\* position i of n: the next record.
NextAfterError(i, n) == i + 1

----------------------------------------------------------------------------
(* The running system.                                                     *)

NotRun == Raise("not run")

SysInit ==
    /\ main_pc = "init_db"
    /\ opensky_pc = "not_started"
    /\ commercial_pc = "not_started"
    /\ data = PyNone
    /\ idx = 1
    /\ session = "closed"
    /\ flights_current = {}
    /\ flights_history = <<>>
    /\ uuid_next = 1
    /\ now = 0
    /\ tasks = <<>>
    /\ channel = <<>>
    /\ log = <<>>
    /\ cur_before = {}
    /\ cycles = 0
    /\ store_faults = 0
    /\ publish_faults = 0

Init ==
    /\ SysInit
    /\ norm_in = [state |-> <<>>, source |-> OpenSky]
    /\ norm_out = NotRun

\* a variant that starts the collectors before the store is initialized
MainInitDbStartsCollectors ==
    /\ main_pc = "init_db"
    /\ \E ok \in BOOLEAN :
         main_pc' = IF ok THEN "connect_redis" ELSE "failed"
    /\ opensky_pc' = "fetching"
    /\ commercial_pc' = "sleeping"
    /\ UNCHANGED <<data, idx, session, flights_current, flights_history,
                   uuid_next, now, tasks, channel, log, cur_before, cycles,
                   store_faults, publish_faults, norm_vars>>

\* main: init_db(); it raises when the database cannot be reached
MainInitDb ==
    /\ main_pc = "init_db"
    /\ \E ok \in BOOLEAN :
         main_pc' = IF ok THEN "connect_redis" ELSE "failed"
    /\ UNCHANGED <<opensky_pc, commercial_pc, data, idx, session,
                   flights_current, flights_history, uuid_next, now, tasks,
                   channel, log, cur_before, cycles, store_faults,
                   publish_faults, norm_vars>>

\* main: redis = await aioredis.create_redis_pool(REDIS_URL), then the two
\* collectors are handed to asyncio.gather, which starts them
MainConnectRedis ==
    /\ main_pc = "connect_redis"
    /\ \E ok \in BOOLEAN :
         IF ok
         THEN /\ main_pc' = "gather"
              /\ opensky_pc' = "fetching"
              /\ commercial_pc' = "sleeping"
         ELSE /\ main_pc' = "failed"
              /\ UNCHANGED <<opensky_pc, commercial_pc>>
    /\ UNCHANGED <<data, idx, session, flights_current,
                   flights_history, uuid_next, now, tasks, channel, log,
                   cur_before, cycles, store_faults, publish_faults,
                   norm_vars>>

\* collector_commercial: await asyncio.sleep(1), then it returns
CommercialReturns ==
    /\ main_pc = "gather"
    /\ opensky_pc \in {"fetching", "sleeping"}
    /\ commercial_pc = "sleeping"
    /\ commercial_pc' = "done"
    /\ UNCHANGED <<main_pc, opensky_pc, data, idx, session,
                   flights_current, flights_history, uuid_next, now, tasks,
                   channel, log, cur_before, cycles, store_faults,
                   publish_faults, norm_vars>>

\* records the model may still fetch
RecordsLeft == MaxRecords - Len(log)

\* collector_opensky, lines 215-216 and 231: the fetch returns and the
\* condition is false; straight to the sleep
OpenskyNoData ==
    /\ main_pc = "gather"
    /\ opensky_pc = "fetching"
    /\ \E outcome \in HttpOutcomes(0) :
         /\ ~HasStates(fetch_opensky_all(outcome))
         /\ data' = fetch_opensky_all(outcome)
    /\ cycles' = cycles + 1
    /\ opensky_pc' = "sleeping"
    /\ UNCHANGED <<main_pc, commercial_pc, idx, session,
                   flights_current, flights_history, uuid_next, now, tasks,
                   channel, log, cur_before, store_faults, publish_faults,
                   norm_vars>>

\* collector_opensky, lines 215-218: data['states'] is null, len(states)
\* raises TypeError outside any try and the coroutine ends with it
OpenskyStatesNull ==
    /\ main_pc = "gather"
    /\ opensky_pc = "fetching"
    /\ \E outcome \in HttpOutcomes(0) :
         /\ HasStates(fetch_opensky_all(outcome))
         /\ ~fetch_opensky_all(outcome).is_list
         /\ data' = fetch_opensky_all(outcome)
    /\ cycles' = cycles + 1
    /\ opensky_pc' = "crashed"
    /\ UNCHANGED <<main_pc, commercial_pc, idx, session,
                   flights_current, flights_history, uuid_next, now, tasks,
                   channel, log, cur_before, store_faults, publish_faults,
                   norm_vars>>

\* collector_opensky, lines 215-219: a snapshot; a session is opened and the
\* for loop starts
OpenskySnapshot ==
    /\ main_pc = "gather"
    /\ opensky_pc = "fetching"
    /\ \E outcome \in HttpOutcomes(RecordsLeft) :
         /\ HasStates(fetch_opensky_all(outcome))
         /\ fetch_opensky_all(outcome).is_list
         /\ data' = fetch_opensky_all(outcome)
    /\ cycles' = cycles + 1
    /\ idx' = 1
    /\ session' = "active"
    /\ opensky_pc' = "loop"
    /\ UNCHANGED <<main_pc, commercial_pc, flights_current, flights_history,
                   uuid_next, now, tasks, channel, log, cur_before,
                   store_faults, publish_faults, norm_vars>>

\* the faults the database may raise for the next upsert_current
Faults ==
    IF session = "active" /\ store_faults + publish_faults < MaxFaults
    THEN BOOLEAN ELSE {FALSE}

\* a variant of the for body that stores first and creates the publish task
\* only once upsert_current has returned
ProcessRecordStoreFirst ==
    /\ opensky_pc = "loop"
    /\ idx <= Len(states)
    /\ LET r == normalize_opensky_state(states[idx], OpenSky)
       IN IF ~r.ok
          THEN /\ log' = Append(log, [cycle |-> cycles, pos |-> idx,
                                      ok |-> FALSE, err |-> r.err,
                                      task |-> 0, store |-> "none"])
               /\ idx' = idx + 1
               /\ UNCHANGED <<session, flights_current, flights_history,
                              uuid_next, tasks, cur_before, store_faults>>
          ELSE \E fault \in Faults :
                 LET db == [cur |-> flights_current,
                            hist |-> flights_history,
                            uuid_next |-> uuid_next]
                     u == upsert_current(session, db, now, r.fs, fault)
                 IN /\ tasks' = IF u.raised THEN tasks
                                 ELSE create_task(tasks, dict(r.fs), cycles)
                    /\ session' = u.session
                    /\ flights_current' = u.cur
                    /\ flights_history' = u.hist
                    /\ uuid_next' = u.uuid_next
                    /\ cur_before' = flights_current
                    /\ store_faults' = store_faults + (IF fault THEN 1 ELSE 0)
                    /\ log' = Append(log,
                          [cycle |-> cycles, pos |-> idx, ok |-> TRUE,
                           err |-> "",
                           task |-> IF u.raised THEN 0 ELSE Len(tasks) + 1,
                           store |-> IF ~u.raised THEN "ok"
                                     ELSE IF fault THEN "fault"
                                     ELSE "inactive"])
                    /\ idx' = idx + 1
    /\ UNCHANGED <<main_pc, opensky_pc, commercial_pc, data, now,
                   channel, cycles, publish_faults, norm_vars>>

\* collector_opensky, lines 220-229: one pass of the for body.  Normalizing
\* raises, and the except clause logs it; or the publish task is created and
\* upsert_current runs, and the except clause logs what it raises.
ProcessRecord ==
    /\ opensky_pc = "loop"
    /\ idx <= Len(states)
    /\ LET r == normalize_opensky_state(states[idx], OpenSky)
       IN IF ~r.ok
          THEN /\ log' = Append(log, [cycle |-> cycles, pos |-> idx,
                                      ok |-> FALSE, err |-> r.err,
                                      task |-> 0, store |-> "none"])
               /\ idx' = NextAfterError(idx, Len(states))
               /\ UNCHANGED <<session, flights_current, flights_history,
                              uuid_next, tasks, cur_before, store_faults>>
          ELSE \E fault \in Faults :
                 LET db == [cur |-> flights_current,
                            hist |-> flights_history,
                            uuid_next |-> uuid_next]
                     u == upsert_current(session, db, now, r.fs, fault)
                 IN /\ tasks' = create_task(tasks, dict(r.fs), cycles)
                    /\ session' = u.session
                    /\ flights_current' = u.cur
                    /\ flights_history' = u.hist
                    /\ uuid_next' = u.uuid_next
                    /\ cur_before' = flights_current
                    /\ store_faults' = store_faults + (IF fault THEN 1 ELSE 0)
                    /\ log' = Append(log,
                          [cycle |-> cycles, pos |-> idx, ok |-> TRUE,
                           err |-> "", task |-> Len(tasks) + 1,
                           store |-> IF ~u.raised THEN "ok"
                                     ELSE IF fault THEN "fault"
                                     ELSE "inactive"])
                    /\ idx' = IF u.raised
                              THEN NextAfterError(idx, Len(states))
                              ELSE idx + 1
    /\ UNCHANGED <<main_pc, opensky_pc, commercial_pc, data, now,
                   channel, cycles, publish_faults, norm_vars>>

\* collector_opensky, lines 230-231: the loop is over; session.close() and
\* the sleep begins
EndSnapshot ==
    /\ opensky_pc = "loop"
    /\ idx > Len(states)
    /\ session' = "closed"
    /\ opensky_pc' = "sleeping"
    /\ UNCHANGED <<main_pc, commercial_pc, data, idx,
                   flights_current, flights_history, uuid_next, now, tasks,
                   channel, log, cur_before, cycles, store_faults,
                   publish_faults, norm_vars>>

\* the first task the event loop has not run yet, 0 if none
FirstCreated ==
    IF \E i \in 1..Len(tasks) : tasks[i].status = "created"
    THEN CHOOSE i \in 1..Len(tasks) :
           /\ tasks[i].status = "created"
           /\ \A j \in 1..(i - 1) : tasks[j].status # "created"
    ELSE 0

\* collector_opensky, line 231 to 215: the sleep is over.  The tasks created
\* during the snapshot were ready when the sleep began, so the event loop
\* has run them before the timer fires; and the one-second sleep of
\* collector_commercial, begun before the collector's first fetch, is over
\* before a longer sleep begun later.
OpenskyWakes ==
    /\ main_pc = "gather"
    /\ opensky_pc = "sleeping"
    /\ FirstCreated = 0
    /\ OPENSKY_POLL_INTERVAL > 1 => commercial_pc # "sleeping"
    /\ cycles < MaxCycles
    /\ opensky_pc' = "fetching"
    /\ now' = now + OPENSKY_POLL_INTERVAL
    /\ UNCHANGED <<main_pc, commercial_pc, data, idx, session,
                   flights_current, flights_history, uuid_next, tasks,
                   channel, log, cur_before, cycles, store_faults,
                   publish_faults, norm_vars>>

PublishOutcomes ==
    IF store_faults + publish_faults < MaxFaults
    THEN {"published", "raised", "hung"} ELSE {"published"}

\* a variant in which the for body has a suspension point, so that the event
\* loop may run a publish task between two records
RunPublishInLoop ==
    /\ main_pc = "gather"
    /\ opensky_pc \in {"fetching", "sleeping", "loop"}
    /\ FirstCreated # 0
    /\ \E outcome \in PublishOutcomes :
         /\ tasks' = [tasks EXCEPT ![FirstCreated].status = outcome]
         /\ channel' = publish_redis(channel, tasks[FirstCreated].payload,
                                     outcome)
         /\ publish_faults' =
                publish_faults + (IF outcome = "published" THEN 0 ELSE 1)
    /\ UNCHANGED <<main_pc, opensky_pc, commercial_pc, data, idx, session,
                   flights_current, flights_history, uuid_next, now, log,
                   cur_before, cycles, store_faults, norm_vars>>

\* The event loop runs the oldest publish task while the collector is
\* suspended at an await.
RunPublish ==
    /\ main_pc = "gather"
    /\ opensky_pc \in {"fetching", "sleeping"}
    /\ FirstCreated # 0
    /\ \E outcome \in PublishOutcomes :
         /\ tasks' = [tasks EXCEPT ![FirstCreated].status = outcome]
         /\ channel' = publish_redis(channel, tasks[FirstCreated].payload,
                                     outcome)
         /\ publish_faults' =
                publish_faults + (IF outcome = "published" THEN 0 ELSE 1)
         /\ opensky_pc' = CollectorAfterTask(opensky_pc, outcome)
    /\ UNCHANGED <<main_pc, commercial_pc, data, idx, session,
                   flights_current, flights_history, uuid_next, now, log,
                   cur_before, cycles, store_faults, norm_vars>>

\* main: asyncio.gather re-raises the collector's exception; asyncio.run
\* cancels what is still running
MainGatherRaises ==
    /\ main_pc = "gather"
    /\ opensky_pc = "crashed"
    /\ main_pc' = "failed"
    /\ commercial_pc' = IF commercial_pc = "sleeping" THEN "cancelled"
                        ELSE commercial_pc
    /\ tasks' = [i \in 1..Len(tasks) |->
                    IF tasks[i].status \in {"created", "hung"}
                    THEN [tasks[i] EXCEPT !.status = "cancelled"]
                    ELSE tasks[i]]
    /\ UNCHANGED <<opensky_pc, data, idx, session, flights_current,
                   flights_history, uuid_next, now, channel, log, cur_before,
                   cycles, store_faults, publish_faults, norm_vars>>

Next ==
    \/ MainInitDb
    \/ MainConnectRedis
    \/ CommercialReturns
    \/ OpenskyNoData
    \/ OpenskyStatesNull
    \/ OpenskySnapshot
    \/ ProcessRecord
    \/ EndSnapshot
    \/ OpenskyWakes
    \/ RunPublish
    \/ MainGatherRaises

Spec == Init /\ [][Next]_vars

----------------------------------------------------------------------------
(* normalize_opensky_state on its own: one provider record, one call.      *)

Lengths == {0, 1, 4, 12, 13, 14, 17}
Identities == {None, Str(<<>>), Str(<<"a">>), List}
Callsigns == {None, Str(<<>>), Str(<<" ">>), Str(<<" ", "a", " ">>), Num(1)}
Times == {None, Num(0), Num(1)}
Altitudes == {None, Num(0), Num(1), Str(<<"a">>)}
Coordinates == {None, Num(1)}
Sources == {OpenSky, Str(<<"x">>)}

\* the records of the model: a full record cut to one of the lengths
NormRecords ==
    {SubSeq(Record(id, cs, t3, t4, lon, lat, a7, a13), 1, n) :
        id \in Identities, cs \in Callsigns, t3 \in Times, t4 \in Times,
        lon \in Coordinates, lat \in Coordinates \cup {Str(<<"a">>)},
        a7 \in Altitudes, a13 \in Altitudes \ {Str(<<"a">>)}, n \in Lengths}

NormInit ==
    /\ SysInit
    /\ norm_in \in [state : NormRecords, source : Sources]
    /\ norm_out = NotRun

Normalize ==
    /\ norm_out = NotRun
    /\ norm_out' = normalize_opensky_state(norm_in.state, norm_in.source)
    /\ UNCHANGED <<sys_vars, norm_in>>

NormNext == Normalize

NormSpec == NormInit /\ [][NormNext]_vars

----------------------------------------------------------------------------
(* Vocabulary of the properties.                                           *)

\* the log entries, and the publish tasks, of the current cycle
CycleLog == SelectSeq(log, LAMBDA e : e.cycle = cycles)
CycleTasks == SelectSeq(tasks, LAMBDA k : k.cycle = cycles)

\* the log entries of the records upsert_current was called for
UpsertCalls == SelectSeq(log, LAMBDA e : e.ok)

\* the state a log entry's record normalized to
StateOf(e) == tasks[e.task].payload

\* the current cycle fetched a snapshot: states is data['states']
InSnapshot == cycles >= 1 /\ HasStates(data) /\ data.is_list

\* what normalizing each record of the catalog gives
Expected == [rec \in Catalog |-> normalize_opensky_state(rec, OpenSky)]

\* the columns a history row takes from a state
Sighting(x) ==
    [icao24 |-> x.icao24, lat |-> x.lat, lon |-> x.lon,
     altitude |-> x.altitude, velocity |-> x.velocity, source |-> x.source]

\* successful upsert_current calls for an aircraft so far
Stored(a) ==
    Len(SelectSeq(log, LAMBDA e : e.store = "ok" /\ StateOf(e).icao24 = a))

HistoryOf(a) == SelectSeq(flights_history, LAMBDA h : h.icao24 = a)

\* the current-state rows of an aircraft
CurrentOf(a) == {row \in flights_current : row.icao24 = a}

\* every aircraft identity the run has seen
Aircraft ==
    {tasks[k].payload.icao24 : k \in 1..Len(tasks)}
    \cup {row.icao24 : row \in flights_current}

----------------------------------------------------------------------------
(* C1: partial-failure isolation.  In a snapshot the records that fail     *)
(* normalization are skipped, each with one logged error, and exactly the  *)
(* others are submitted for publishing and handed to upsert_current, in    *)
(* snapshot order, to the end of the snapshot; when no store fault hits    *)
(* the snapshot, their history rows are the last rows of flights_history,  *)
(* in snapshot order.                                                      *)
C1_PartialFailureIsolation ==
    InSnapshot =>
        LET entries == CycleLog
            submitted == CycleTasks
            results == [i \in 1..(idx - 1) |-> Expected[states[i]]]
            done == SelectSeq(results, LAMBDA r : r.ok)
        IN /\ opensky_pc \in {"sleeping", "fetching"}
                => idx = Len(states) + 1
           /\ Len(entries) = idx - 1
           /\ \A i \in 1..Len(entries) :
                /\ entries[i].pos = i
                /\ entries[i].ok = results[i].ok
                /\ entries[i].err = results[i].err
                /\ (entries[i].store = "none") = ~results[i].ok
           /\ Len(submitted) = Len(done)
           /\ \A k \in 1..Len(done) : submitted[k].payload = done[k].fs
           /\ (\A i \in 1..Len(entries) :
                   entries[i].store \in {"ok", "none"})
              => /\ Len(flights_history) >= Len(done)
                 /\ \A k \in 1..Len(done) :
                      Sighting(flights_history[
                                   Len(flights_history) - Len(done) + k])
                          = Sighting(done[k].fs)

\* a snapshot of three records whose second is malformed, fully processed:
\* the first and the third are stored and submitted
C1_Witness ==
    /\ InSnapshot
    /\ opensky_pc = "sleeping"
    /\ states = <<RecA1, RecShort, RecB>>
    /\ Len(CycleTasks) = 2
    /\ Len(flights_history) = 2
    /\ flights_history[2].icao24 = RecB[1]

(* C2: history accumulation.  From the empty store, once upsert_current    *)
(* has succeeded N >= 1 times for an aircraft, the store holds exactly N   *)
(* history rows and exactly one current-state row for it.                  *)
C2_HistoryAccumulation ==
    \A a \in Aircraft :
        Stored(a) >= 1 =>
            /\ Len(HistoryOf(a)) = Stored(a)
            /\ Cardinality(CurrentOf(a)) = 1

\* three successful calls for the same aircraft
C2_Witness ==
    /\ Stored(RecA1[1]) = 3
    /\ Len(HistoryOf(RecA1[1])) = 3

(* C3: idempotence.  When the last two calls of upsert_current were given  *)
(* the same state and the first of them succeeded, the current-state rows  *)
(* after the second call are those after the first: same rows, same        *)
(* identifiers, same values.                                               *)
C3_UpsertIdempotent ==
    LET n == Len(UpsertCalls)
    IN (/\ n >= 2
        /\ StateOf(UpsertCalls[n]) = StateOf(UpsertCalls[n - 1])
        /\ UpsertCalls[n - 1].store = "ok")
       => flights_current = cur_before

\* the same state stored twice in a row
C3_Witness ==
    LET n == Len(UpsertCalls)
    IN /\ n >= 2
       /\ StateOf(UpsertCalls[n]) = StateOf(UpsertCalls[n - 1])
       /\ UpsertCalls[n - 1].store = "ok"
       /\ UpsertCalls[n].store = "ok"
       /\ Cardinality(flights_current) = 1

(* C4: in every state flights_current holds at most one row for an         *)
(* aircraft: none before its first successful sighting, exactly one from   *)
(* then on (the count of successful sightings never decreases, so the row  *)
(* is never deleted).                                                      *)
C4_OneCurrentRowPerAircraft ==
    \A a \in Aircraft :
        Cardinality(CurrentOf(a))
            = (IF Stored(a) = 0 THEN 0 ELSE 1)

\* two aircraft stored once each, and a further sighting lost to a store
\* fault
C4_Witness ==
    /\ Stored(RecA1[1]) = 1
    /\ Stored(RecB[1]) = 1
    /\ Cardinality(flights_current) = 2
    /\ \E i \in 1..Len(log) : log[i].store = "fault"

(* C5: a failed or unusable fetch never ends the poller.  Whenever the     *)
(* value the fetch returned is None, lacks 'states' or holds a 'states'    *)
(* that is not a list, the collector processes nothing in that cycle and   *)
(* goes to its sleep.                                                      *)
C5_UnusableFetchSkipsCycle ==
    (cycles >= 1 /\ ~(HasStates(data) /\ data.is_list)) =>
        /\ opensky_pc \in {"sleeping", "fetching"}
        /\ CycleLog = <<>>
        /\ CycleTasks = <<>>

(* C6: store-failure isolation.  Every record of a snapshot that           *)
(* normalizes and meets no store fault of its own is stored, also after    *)
(* the write of an earlier record of the snapshot failed.                  *)
C6_StoreFailureIsolated ==
    \A i \in 1..Len(log) :
        (log[i].ok /\ log[i].store # "fault") => log[i].store = "ok"

(* C7: publish-failure isolation.  A publish task that raises or never     *)
(* completes leaves the collector and main where they were: the collector  *)
(* ends only on a 'states' that is no list, main only on a failed          *)
(* initialization or an ended collector; and every record whose publish    *)
(* failed had its store write attempted, with the outcome the store gave.  *)
C7_PublishFailureIsolated ==
    /\ opensky_pc = "crashed" => (HasStates(data) /\ ~data.is_list)
    /\ main_pc = "failed" => opensky_pc \in {"not_started", "crashed"}
    /\ Len(tasks) = Len(UpsertCalls)
    /\ \A k \in 1..Len(tasks) :
         /\ UpsertCalls[k].task = k
         /\ tasks[k].status \in {"raised", "hung"} =>
              UpsertCalls[k].store \in {"ok", "fault", "inactive"}
    /\ Len(flights_history)
         = Len(SelectSeq(log, LAMBDA e : e.store = "ok"))

\* the publish of the first record of a run failed, the record is stored,
\* and the collector is processing its next snapshot
C7_Witness ==
    /\ Len(tasks) >= 1
    /\ tasks[1].status \in {"raised", "hung"}
    /\ UpsertCalls[1].store = "ok"
    /\ cycles = 2
    /\ opensky_pc = "loop"
    /\ Len(flights_history) >= 2

IdentityMissing(state) ==
    \/ ~HasIndex(state, 0)
    \/ At(state, 0) = None
    \/ At(state, 0) = Str(<<>>)

(* C8: a record whose identity field is absent, null or the empty string   *)
(* fails normalization and yields no state.                                *)
C8_MissingIdentityFails ==
    (norm_out # NotRun /\ IdentityMissing(norm_in.state)) => ~norm_out.ok

FirstNonNull(a, b) == IF a # None THEN a ELSE b

(* C9: coalescing.  The normalized altitude is position 7 whenever that    *)
(* is not null, 0 included, and position 13 only when position 7 is null;  *)
(* last_seen is position 3 whenever that is not null, 0 included, and      *)
(* position 4 only when position 3 is null.                                *)
C9_FirstNonNull ==
    norm_out.ok =>
        /\ norm_out.fs.altitude
             = FirstNonNull(At(norm_in.state, 7), At(norm_in.state, 13))
        /\ norm_out.fs.last_seen
             = FirstNonNull(At(norm_in.state, 3), At(norm_in.state, 4))

IdentityReadable(state) ==
    /\ HasIndex(state, 0)
    /\ At(state, 0).t = "str"
    /\ At(state, 0).s # <<>>

\* position i read defensively against the validation `valid` of its field
Defensive(state, i, valid(_)) ==
    IF HasIndex(state, i) /\ valid(At(state, i)) THEN At(state, i) ELSE None

(* C10: tolerant normalization.  A record with a readable, non-empty       *)
(* identity normalizes whatever its other fields are: a field that is      *)
(* absent, null or of the wrong type is None in the state.                 *)
C10_TolerantNormalization ==
    (norm_out # NotRun /\ IdentityReadable(norm_in.state)) =>
        /\ norm_out.ok
        /\ norm_out.fs.lat = Defensive(norm_in.state, 6, ValidOptNum)
        /\ norm_out.fs.lon = Defensive(norm_in.state, 5, ValidOptNum)
        /\ norm_out.fs.velocity = Defensive(norm_in.state, 9, ValidOptNum)
        /\ norm_out.fs.origin_country
             = Defensive(norm_in.state, 2, ValidOptStr)

\* the callsign of a record, trimmed; None when nothing is left of it
TrimmedCallsign(state) ==
    LET cs == At(state, 1)
    IN IF cs.t = "str" /\ Strip(cs).s # <<>> THEN Strip(cs) ELSE None

(* C11: callsign normalization.  The normalized callsign is the record's   *)
(* callsign without its surrounding whitespace, and None whenever nothing  *)
(* is left of it (the input is null, empty or all whitespace); it is never *)
(* the empty string.                                                       *)
C11_CallsignTrimmed ==
    norm_out.ok =>
        /\ norm_out.fs.callsign = TrimmedCallsign(norm_in.state)
        /\ norm_out.fs.callsign # Str(<<>>)

(* C12: a record that normalizes gives a state whose icao24 is the         *)
(* record's identity field (position 0) and whose source is the source tag *)
(* normalize_opensky_state was given.                                      *)
C12_IdentityAndSource ==
    norm_out.ok =>
        /\ norm_out.fs.icao24 = At(norm_in.state, 0)
        /\ norm_out.fs.source = norm_in.source

\* a record with identity "a" normalized under a source tag other than
\* 'opensky'
C12_Witness ==
    /\ norm_out.ok
    /\ norm_in.source = Str(<<"x">>)
    /\ norm_out.fs.source = Str(<<"x">>)
    /\ norm_out.fs.icao24 = Str(<<"a">>)
    /\ At(norm_in.state, 0) = Str(<<"a">>)

(* C13: position pairing.  In every state normalize_opensky_state returns, *)
(* lat and lon are both present or both absent.                            *)
C13_PositionPaired ==
    norm_out.ok => (norm_out.fs.lat = None <=> norm_out.fs.lon = None)

\* no collector has been started, and nothing was fetched, stored or
\* published
NothingStarted ==
    /\ opensky_pc = "not_started"
    /\ commercial_pc = "not_started"
    /\ cycles = 0
    /\ data = PyNone
    /\ session = "closed"
    /\ log = <<>>
    /\ tasks = <<>>
    /\ channel = <<>>
    /\ flights_current = {}
    /\ flights_history = <<>>

\* main goes through its steps once, in order, and the collectors start on
\* the step that ends the second initialization with success
StartupStep ==
    /\ main_pc' # main_pc =>
          \/ main_pc = "init_db" /\ main_pc' \in {"connect_redis", "failed"}
          \/ main_pc = "connect_redis" /\ main_pc' \in {"gather", "failed"}
          \/ main_pc = "gather" /\ main_pc' = "failed"
    /\ (opensky_pc = "not_started" /\ opensky_pc' # "not_started")
          => (main_pc = "connect_redis" /\ main_pc' = "gather")
    /\ (commercial_pc = "not_started" /\ commercial_pc' # "not_started")
          => (main_pc = "connect_redis" /\ main_pc' = "gather")
    /\ cycles' # cycles => main_pc = "gather"

(* C14: start-up ordering.  init_db and the publisher connection each      *)
(* happen once, in this order, and both have completed before a collector  *)
(* is started or fetches; when either of them fails, main ends with no     *)
(* collector started and nothing fetched, stored or published.             *)
C14_StartupOrdering ==
    /\ [](main_pc \in {"init_db", "connect_redis"} => NothingStarted)
    /\ []((main_pc = "failed" /\ opensky_pc # "crashed") => NothingStarted)
    /\ [][StartupStep]_vars

\* both initializations done, the collector has fetched and stored
C14_Witness ==
    /\ main_pc = "gather"
    /\ cycles >= 1
    /\ opensky_pc = "sleeping"
    /\ Len(flights_history) >= 1
    /\ Len(channel) >= 1

(* C15: poller liveness.  Once started, collector_opensky is fetching,     *)
(* processing the snapshot it fetched or sleeping; it never reaches a      *)
(* terminal state of its own, whatever the fetch returned and whatever     *)
(* errors its records met.                                                 *)
C15_PollerNeverTerminates ==
    opensky_pc \in {"not_started", "fetching", "loop", "sleeping"}

\* the columns of a current-state row that upsert_current takes from a state
Columns(x) ==
    [icao24 |-> x.icao24, callsign |-> x.callsign,
     origin_country |-> x.origin_country, lat |-> x.lat, lon |-> x.lon,
     altitude |-> x.altitude, velocity |-> x.velocity,
     heading |-> x.heading, vertical_rate |-> x.vertical_rate,
     last_seen |-> x.last_seen, source |-> x.source]

\* A step that processes a record whose store write succeeds leaves the
\* record's state in the aircraft's current-state row and one new history
\* row of it, the last; every other step leaves both tables as they were.
StoreStep ==
    IF Len(log') = Len(log) + 1 /\ log'[Len(log')].store = "ok"
    THEN LET fs == tasks'[log'[Len(log')].task].payload
             n == Len(flights_history)
         IN /\ Len(flights_history') = n + 1
            /\ SubSeq(flights_history', 1, n) = flights_history
            /\ Sighting(flights_history'[n + 1]) = Sighting(fs)
            /\ \E row \in flights_current' : Columns(row) = Columns(fs)
            /\ {row \in flights_current' : row.icao24 # fs.icao24}
                 = {row \in flights_current : row.icao24 # fs.icao24}
    ELSE /\ flights_current' = flights_current
         /\ flights_history' = flights_history

(* C16: store atomicity per record.  Each processed record contributes     *)
(* both its current-state insert or update and its one history row, or,    *)
(* when its store write fails, neither: no step leaves a history row       *)
(* without the current-state change or the reverse.                        *)
C16_StoreAtomicPerRecord == [][StoreStep]_vars

\* a record of a new aircraft lost to a failed commit after another was
\* stored: neither table holds anything of it
C16_Witness ==
    /\ Len(log) = 2
    /\ log[1].store = "ok"
    /\ log[2].store = "fault"
    /\ StateOf(log[2]).icao24 = RecB[1]
    /\ CurrentOf(RecB[1]) = {}
    /\ Len(flights_history) = 1
    /\ Cardinality(flights_current) = 1

\* the log entries of the records whose store write succeeded
StoredCalls == SelectSeq(log, LAMBDA e : e.store = "ok")

\* the last successful store write for an aircraft
LastStored(a) ==
    LET own == SelectSeq(StoredCalls, LAMBDA e : StateOf(e).icao24 = a)
    IN StateOf(own[Len(own)])

(* C17: per-poller upsert ordering.  Store writes are applied in snapshot  *)
(* order: the record processed at position i of the snapshot is the i-th   *)
(* record of data['states'], the history rows lie in the order in which    *)
(* their records were processed (timestamps never decrease along it), and  *)
(* the current-state row of an aircraft holds the fields of its last       *)
(* successfully stored occurrence.                                         *)
C17_UpsertsInSnapshotOrder ==
    /\ InSnapshot =>
          \A i \in 1..Len(CycleLog) :
              /\ CycleLog[i].pos = i
              /\ CycleLog[i].ok =>
                    StateOf(CycleLog[i]) = Expected[data.states[i]].fs
    /\ Len(flights_history) = Len(StoredCalls)
    /\ \A k \in 1..Len(StoredCalls) :
          /\ Sighting(flights_history[k]) = Sighting(StateOf(StoredCalls[k]))
          /\ k > 1 =>
                flights_history[k - 1].timestamp <= flights_history[k].timestamp
    /\ \A a \in Aircraft :
          Stored(a) >= 1 =>
              \A row \in CurrentOf(a) : Columns(row) = Columns(LastStored(a))

\* one snapshot with the same aircraft at positions 1 and 2, both stored:
\* the row holds the second occurrence
C17_Witness ==
    /\ InSnapshot
    /\ opensky_pc = "sleeping"
    /\ data.states = <<RecA1, RecA2>>
    /\ Len(flights_history) = 2
    /\ \A row \in flights_current :
          Columns(row) = Columns(Expected[RecA2].fs)
    /\ Cardinality(flights_current) = 1

(* C18: latest-wins without timestamp guard.  A successful upsert_current  *)
(* for an aircraft that has a row leaves that row with its identifier and  *)
(* with callsign, origin_country, lat, lon, altitude, velocity, heading,   *)
(* vertical_rate, last_seen and source of the new state, whether the new   *)
(* last_seen is older or newer than the stored one.                        *)
C18_LatestWins ==
    LET n == Len(UpsertCalls)
    IN (n >= 1 /\ UpsertCalls[n].store = "ok") =>
           \A old \in cur_before :
               old.icao24 = StateOf(UpsertCalls[n]).icao24 =>
                   \E row \in flights_current :
                       /\ row.id = old.id
                       /\ Columns(row) = Columns(StateOf(UpsertCalls[n]))
                       /\ row.flight_number = old.flight_number
                       /\ row.country_name = old.country_name

\* a sighting with an older last_seen has replaced a fresher row
C18_Witness ==
    LET n == Len(UpsertCalls)
    IN /\ n >= 2
       /\ UpsertCalls[n].store = "ok"
       /\ \E old \in cur_before : \E row \in flights_current :
             /\ old.icao24 = StateOf(UpsertCalls[n]).icao24
             /\ row.id = old.id
             /\ old.last_seen = Num(2)
             /\ row.last_seen = Num(1)

\* the publish tasks that delivered their message
Delivered == SelectSeq(tasks, LAMBDA k : k.status = "published")

(* C19: a store failure does not block the fan-out.  Every record that     *)
(* normalizes is submitted to the publisher exactly once, with a payload   *)
(* equal to its state, whether its store write succeeds or fails: each     *)
(* such record has a publish task of its own, the task has been run by the *)
(* time the next cycle begins, and the messages on the channel are the     *)
(* payloads of the tasks that delivered, in order.                         *)
C19_StoreFailureDoesNotBlockPublish ==
    /\ Len(tasks) = Len(UpsertCalls)
    /\ \A k \in 1..Len(tasks) :
          /\ UpsertCalls[k].task = k
          /\ tasks[k].cycle = UpsertCalls[k].cycle
          /\ tasks[k].cycle < cycles => tasks[k].status # "created"
    /\ InSnapshot =>
          \A i \in 1..Len(CycleLog) :
              CycleLog[i].ok =>
                  tasks[CycleLog[i].task].payload
                      = dict(Expected[data.states[i]].fs)
    /\ Len(channel) = Len(Delivered)
    /\ \A k \in 1..Len(channel) :
          channel[k] = json_dumps(Delivered[k].payload)

\* a record whose store write failed, published all the same
C19_Witness ==
    \E i \in 1..Len(log) :
        /\ log[i].store \in {"fault", "inactive"}
        /\ tasks[log[i].task].status = "published"
        /\ \E k \in 1..Len(channel) :
              channel[k] = json_dumps(dict(Expected[RecB].fs))
        /\ StateOf(log[i]) = Expected[RecB].fs
        /\ CurrentOf(RecB[1]) = {}

(* C20: scheduling of the publish tasks.  No publish task of a snapshot    *)
(* runs before upsert_current has been attempted for every record of the   *)
(* snapshot: a task of the current cycle has run only when the collector   *)
(* is past the loop, at the sleep that follows the snapshot, with every    *)
(* record of the snapshot processed; and the tasks are started in the      *)
(* order in which they were created.                                       *)
C20_PublishAfterSnapshot ==
    /\ \A k \in 1..Len(tasks) :
          (tasks[k].status # "created" /\ tasks[k].cycle = cycles) =>
              /\ opensky_pc \in {"sleeping", "fetching"}
              /\ session = "closed"
              /\ Len(CycleLog) = Len(data.states)
    /\ opensky_pc = "loop" =>
          \A k \in 1..Len(CycleTasks) : CycleTasks[k].status = "created"
    /\ \A j \in 1..Len(tasks) : \A i \in 1..(j - 1) :
          tasks[j].status # "created" => tasks[i].status # "created"

\* a snapshot of two records, both attempted; at the sleep the first task
\* has delivered and the second has not run yet
C20_Witness ==
    /\ InSnapshot
    /\ opensky_pc = "sleeping"
    /\ Len(data.states) = 2
    /\ Len(CycleLog) = 2
    /\ Len(CycleTasks) = 2
    /\ CycleTasks[1].status = "published"
    /\ CycleTasks[2].status = "created"

====
